---------------------------- MODULE Spec2Model ----------------------------
(***************************************************************************)
(* Budget analytics API (Flask + SQLAlchemy + pandas): app.py, models.py,  *)
(* database.py.                                                            *)
(*                                                                         *)
(* Numbers.  Column `amount` is a Float.  Amounts are modelled in fixed    *)
(* point, one unit = 0.002, so one cent = UnitsPerCent = 5 units.  Because *)
(* 5 is odd, no sum or difference of such amounts lies exactly half way    *)
(* between two cents, and Python's round(x, 2) is then the nearest cent,   *)
(* whatever the float representation error of the sum (it is far below     *)
(* the 0.001 that separates any such value from a rounding boundary).      *)
(*                                                                         *)
(* Dates.  A DateTime is modelled by the integer yyyymmdd of its calendar  *)
(* date; request strings are converted by the lookup table DateTable.      *)
(*                                                                         *)
(* Rows.  A Transaction row is [date, category, amount, type]; its id is   *)
(* its position in the table (serial primary key, rows are never deleted). *)
(* description and created_at take no part in any computation and are      *)
(* left out.                                                               *)
(***************************************************************************)
EXTENDS Integers, Sequences, FiniteSets, TLC

VARIABLES
    transactions,   \* committed rows of table transactions, in id order
    budget_goals,   \* committed rows of table budget_goals, in id order
    session,        \* worker -> Transaction objects pending in its scoped session
    request,        \* the request served by the last step
    response,       \* the response returned by the last step
    pc,             \* worker -> position inside set_budget_goal (SpecConc)
    local,          \* worker -> locals of set_budget_goal in flight (SpecConc)
    goal_log        \* history: category -> monthly_limit of its latest completed upsert

vars == <<transactions, budget_goals, session, request, response, pc, local, goal_log>>

---------------------------------------------------------------------------
\* Bounds of the model.

\* rows the transactions table (plus pending objects) may hold
MaxTx == 2

\* data rows of an uploaded CSV file
MaxRows == 2

---------------------------------------------------------------------------
\* Values.

None == "None"

UnitsPerCent == 5

\* -50.002 and 50.006 in units of 0.002
Amounts == {-25001, 25003}

Categories == {"Food", "Salary"}

INCOME == "income"

EXPENSE == "expense"

TransactionType == {INCOME, EXPENSE}

\* date strings of requests and CSV cells, with the calendar date each denotes
DateTable ==
    [s \in {"2023-12-01", "2023-12-20", "2024-01-01", "2024-01-15",
            "2024-03-10", "2024-04-01"} |->
        CASE s = "2023-12-01" -> 20231201
          [] s = "2023-12-20" -> 20231220
          [] s = "2024-01-01" -> 20240101
          [] s = "2024-01-15" -> 20240115
          [] s = "2024-03-10" -> 20240310
          [] s = "2024-04-01" -> 20240401]

\* a string no date format accepts
BadDate == "15/01/2024"

\* does the string parse as %Y-%m-%d (strptime, pd.to_datetime, the DB's cast)
is_date(s) == s \in DOMAIN DateTable

strptime(s) == DateTable[s]

strftime(d) == CHOOSE s \in DOMAIN DateTable : DateTable[s] = d

\* dates of stored rows
RowDates == {20231220, 20240115, 20240310}

Rows == [date : RowDates, category : Categories, amount : Amounts, type : TransactionType]

---------------------------------------------------------------------------
\* Arithmetic helpers.

abs(x) == IF x < 0 THEN -x ELSE x

\* round(x, 2) of an amount: the nearest cent (no ties, see above)
round2(x) ==
    LET r == x % UnitsPerCent
    IN  IF 2 * r < UnitsPerCent THEN x - r ELSE x + (UnitsPerCent - r)

\* round(n / d * 100, 2) for d > 0, in hundredths of a percent.  An exact tie is
\* resolved to the even neighbour, as round() does when the quotient is
\* representable; for a tie that is not representable the float result may
\* be the other neighbour.
round_pct(n, d) ==
    LET q == (n * 10000) \div d
        r == (n * 10000) % d
    IN  IF 2 * r < d THEN q
        ELSE IF 2 * r > d THEN q + 1
        ELSE IF q % 2 = 0 THEN q ELSE q + 1

\* Series.sum(): left fold over the rows of a frame
RECURSIVE sum_amount(_)
sum_amount(df) ==
    IF df = <<>> THEN 0 ELSE sum_amount(SubSeq(df, 1, Len(df) - 1)) + df[Len(df)].amount

\* df[df['type'] == t]
by_type(df, t) == SelectSeq(df, LAMBDA r : r.type = t)

\* frame with df['amount'] = df['amount'].abs()
abs_amount(df) == [i \in 1..Len(df) |-> [df[i] EXCEPT !.amount = abs(df[i].amount)]]

---------------------------------------------------------------------------
\* Helper functions of app.py, over a DataFrame modelled as the sequence of its
\* rows [id, date, category, amount, type]; the empty DataFrame is <<>>.

\* the filters get_transactions_as_dataframe adds to the query; the bounds are
\* passed to the database as received, and the model covers the requests whose
\* bounds are well-formed dates (the database's cast of anything else, and the
\* state it leaves the connection in, are outside app.py)
date_filter(row, start_date, end_date) ==
    /\ (start_date # None => row.date >= strptime(start_date))
    /\ (end_date # None => row.date <= strptime(end_date))

get_transactions_as_dataframe(db, start_date, end_date) ==
    LET data == [i \in 1..Len(db) |->
                    [id |-> i, date |-> db[i].date, category |-> db[i].category,
                     amount |-> db[i].amount, type |-> db[i].type]]
    IN  SelectSeq(data, LAMBDA r : date_filter(r, start_date, end_date))

\* groupby('category')['amount'].sum().to_dict(): one key per category present
groupby_category(df) ==
    [c \in {df[i].category : i \in 1..Len(df)} |->
        sum_amount(SelectSeq(df, LAMBDA r : r.category = c))]

\* faulty variant of analyze_spending: the expenses are summed with their stored sign
analyze_spending_no_abs(df) ==
    IF df = <<>> THEN <<>> ELSE groupby_category(by_type(df, EXPENSE))

analyze_spending(df) ==
    IF df = <<>> THEN <<>>
    ELSE LET expenses == abs_amount(by_type(df, EXPENSE))
         IN  groupby_category(expenses)

\* dt.to_period('M') of a date, written yyyymm
to_period(d) == d \div 100

\* months since year 0 of a period, and back
ordinal(m) == (m \div 100) * 12 + (m % 100) - 1

period_of(o) == (o \div 12) * 100 + (o % 12) + 1

\* pd.period_range(start, end, freq='M'): every month from start's to end's
period_range(start, end) ==
    LET first == ordinal(to_period(start))
        last == ordinal(to_period(end))
    IN  [k \in 1..(last - first + 1) |-> period_of(first + k - 1)]

\* df['date'].min(), df['date'].max() of a non-empty frame
min_date(df) == CHOOSE d \in {df[i].date : i \in 1..Len(df)} :
                    \A i \in 1..Len(df) : d <= df[i].date

max_date(df) == CHOOSE d \in {df[i].date : i \in 1..Len(df)} :
                    \A i \in 1..Len(df) : d >= df[i].date

\* groupby('month')['amount'].sum().get(month, 0)
monthly_sum(df, month) ==
    sum_amount(SelectSeq(df, LAMBDA r : to_period(r.date) = month))

\* faulty variant of savings_rate: spending without income reported as a rate of -100
savings_rate_minus_100(savings, income) ==
    IF income > 0 THEN round_pct(savings, income)
    ELSE IF savings < 0 THEN -10000 ELSE 0

\* (savings / income * 100) if income > 0 else 0, then round(.., 2)

savings_rate(savings, income) ==
    IF income > 0 THEN round_pct(savings, income) ELSE 0

monthly_entry(df, month) ==
    LET income == monthly_sum(by_type(df, INCOME), month)
        expenses == monthly_sum(abs_amount(by_type(df, EXPENSE)), month)
        savings == income - expenses
    IN  [month |-> month,
         income |-> round2(income),
         expenses |-> round2(expenses),
         savings |-> round2(savings),
         savings_rate |-> savings_rate(savings, income)]

\* faulty variant of months_of: only the months that have rows, in ascending order
months_present(df) ==
    LET S == {to_period(df[i].date) : i \in 1..Len(df)}
    IN  [k \in 1..Cardinality(S) |->
            CHOOSE m \in S : Cardinality({x \in S : x < m}) = k - 1]

\* the months the loop of analyze_monthly runs over
months_of(df) == period_range(min_date(df), max_date(df))

analyze_monthly(df) ==
    IF df = <<>> THEN <<>>
    ELSE LET months == months_of(df)
         IN  [k \in 1..Len(months) |-> monthly_entry(df, months[k])]

---------------------------------------------------------------------------
\* Requests.

Workers == {"w1", "w2"}

\* the worker thread that serves requests one after another in Spec
MainWorker == "w1"

\* JSON / CSV amount and monthly_limit values, by their text
NumberTable ==
    [s \in {"-50.002", "50.006", "100", "200"} |->
        CASE s = "-50.002" -> -25001
          [] s = "50.006" -> 25003
          [] s = "100" -> 50000
          [] s = "200" -> 100000]

\* float(x) raises ValueError unless x is the text of a number
is_number(s) == s \in DOMAIN NumberTable

float(s) == NumberTable[s]

\* str.upper() on the type strings of the model
upper(s) ==
    CASE s = "income" -> "INCOME"
      [] s = "expense" -> "EXPENSE"
      [] s = "Income" -> "INCOME"
      [] s = "INCOME" -> "INCOME"
      [] s = "transfer" -> "TRANSFER"

TypeInputs == {"income", "expense", "INCOME", "transfer"}

\* TransactionType[name]: lookup by member name, KeyError otherwise
is_member_name(n) == n \in {"INCOME", "EXPENSE"}

member(n) == IF n = "INCOME" THEN INCOME ELSE EXPENSE

\* the expression both create_transaction and upload_csv use for `type`
type_of(t) == IF t = "income" THEN INCOME ELSE EXPENSE

\* bodies of POST /api/transactions: every field present, or `type` absent
CreateInputs ==
    [date : {"2024-01-15"}, category : {"Food"},
     amount : {"-50.002", "abc"}, type : TypeInputs]
    \cup {[date |-> BadDate, category |-> "Food", amount |-> "-50.002", type |-> "expense"],
          [date |-> "2024-01-15", category |-> "Food", amount |-> "-50.002"]}

required_fields == {"date", "category", "amount", "type"}

CsvRows ==
    [date : {"2024-03-10"}, category : {"Salary"},
     amount : {"50.006"}, type : {"income", "INCOME"}]
    \cup {[date |-> "2024-03-10", category |-> "Salary", amount |-> "abc", type |-> "income"]}

\* allowed_file: a dot, and the text after the last dot is csv in any case
allowed_file(filename) == filename \in {"data.csv", "DATA.CSV"}

RECURSIVE SeqsUpTo(_, _)
SeqsUpTo(S, n) ==
    IF n = 0 THEN {<<>>}
    ELSE LET shorter == SeqsUpTo(S, n - 1)
         IN  shorter \cup {Append(q, x) : q \in {r \in shorter : Len(r) = n - 1}, x \in S}

\* multipart uploads: no file part, an empty or non-CSV file name, a CSV
\* without the required columns, and CSV files of up to MaxRows data rows
UploadInputs ==
    {[has_file |-> FALSE, filename |-> "", columns_ok |-> FALSE, rows |-> <<>>],
     [has_file |-> TRUE, filename |-> "", columns_ok |-> TRUE, rows |-> <<>>],
     [has_file |-> TRUE, filename |-> "notes.txt", columns_ok |-> TRUE, rows |-> <<>>],
     [has_file |-> TRUE, filename |-> "data.csv", columns_ok |-> FALSE, rows |-> <<>>]}
    \cup [has_file : {TRUE}, filename : {"data.csv"}, columns_ok : {TRUE},
          rows : SeqsUpTo(CsvRows, MaxRows)]

\* bodies of POST /api/budget-goals
GoalInputs ==
    [category : Categories, monthly_limit : {"100", "200", "abc"}]
    \cup {[category |-> "Food"]}

\* start_date / end_date of the analytics queries
DateParams == {None, "2024-01-01", "2024-04-01"}

\* periods of /api/comparison: December, January to March, all, none (a day
\* without rows), and one that ends before it starts
Periods ==
    {<<"2023-12-01", "2024-01-01">>, <<"2024-01-01", "2024-04-01">>,
     <<"2023-12-01", "2024-04-01">>, <<"2024-01-01", "2024-01-01">>,
     <<"2024-04-01", "2023-12-01">>}

ComparisonInputs ==
    {[p1_start |-> p1[1], p1_end |-> p1[2], p2_start |-> p2[1], p2_end |-> p2[2]] :
        p1 \in Periods, p2 \in Periods}
    \cup {[p1_start |-> "2023-12-01", p1_end |-> "2024-01-01",
           p2_start |-> "2024-01-01", p2_end |-> None]}

NoRequest == [op |-> "none"]

NoResponse == [op |-> "none", status |-> 0]

---------------------------------------------------------------------------
\* State after start-up: init_db() has created two empty tables.

Init ==
    /\ transactions = <<>>
    /\ budget_goals = <<>>
    /\ session = [w \in Workers |-> <<>>]
    /\ request = [w \in Workers |-> NoRequest]
    /\ response = [w \in Workers |-> NoResponse]
    /\ pc = [w \in Workers |-> "idle"]
    /\ local = [w \in Workers |-> NoRequest]
    /\ goal_log = <<>>

\* jsonify(...), status: what worker w returns for req
Reply(w, req, resp) ==
    /\ request' = [request EXCEPT ![w] = req]
    /\ response' = [response EXCEPT ![w] = resp]

\* db.close(): the worker's scoped session drops every pending object
Close(w) == session' = [session EXCEPT ![w] = <<>>]

\* db.commit() then db.close(): the flush inserts every pending Transaction
\* of the session, `added` last
CommitTransactions(w, added) ==
    /\ Len(transactions) + Len(session[w]) + Len(added) <= MaxTx
    /\ transactions' = transactions \o session[w] \o added
    /\ Close(w)

\* Transaction.to_dict() of the row with the given id
to_dict(db, id) ==
    [id |-> id, date |-> strftime(db[id].date), category |-> db[id].category,
     amount |-> db[id].amount, type |-> db[id].type]

---------------------------------------------------------------------------
\* GET /

home(w) ==
    /\ Reply(w, [op |-> "home"], [op |-> "home", status |-> 200])
    /\ UNCHANGED <<transactions, budget_goals, session, pc, local, goal_log>>

---------------------------------------------------------------------------
\* POST /api/upload

\* Transaction(...) of one CSV row; pd.to_datetime or float may raise
row_raises(row) == ~is_date(row.date) \/ ~is_number(row.amount)

new_transaction(row) ==
    [date |-> strptime(row.date), category |-> row.category,
     amount |-> float(row.amount), type |-> type_of(row.type)]

\* the for loop: the objects added before the first row that raises
RECURSIVE added_rows(_)
added_rows(rows) ==
    IF rows = <<>> \/ row_raises(Head(rows)) THEN <<>>
    ELSE <<new_transaction(Head(rows))>> \o added_rows(Tail(rows))

upload_csv(w, file) ==
    LET req == [op |-> "upload_csv", file |-> file]
        added == added_rows(file.rows)
    IN  /\ UNCHANGED <<budget_goals, pc, local, goal_log>>
        /\ IF ~file.has_file \/ file.filename = "" \/ ~allowed_file(file.filename)
              \/ ~file.columns_ok
           THEN /\ Reply(w, req, [op |-> "upload_csv", status |-> 400])
                /\ UNCHANGED <<transactions, session>>
           ELSE IF Len(added) < Len(file.rows)
           THEN \* a row raised: neither rollback nor close
                /\ Len(transactions) + Len(session[w]) + Len(added) <= MaxTx
                /\ session' = [session EXCEPT ![w] = @ \o added]
                /\ Reply(w, req, [op |-> "upload_csv", status |-> 500])
                /\ UNCHANGED transactions
           ELSE /\ CommitTransactions(w, added)
                /\ Reply(w, req, [op |-> "upload_csv", status |-> 201,
                                  transactions_added |-> Len(added)])

---------------------------------------------------------------------------
\* GET /api/transactions

TransactionQueries ==
    {[start_date |-> None, end_date |-> None, category |-> None, type |-> None],
     [start_date |-> "2024-01-01", end_date |-> "2024-04-01",
      category |-> "Food", type |-> "INCOME"],
     [start_date |-> BadDate, end_date |-> None, category |-> None, type |-> None],
     [start_date |-> None, end_date |-> None, category |-> None, type |-> "transfer"]}

get_transactions(w, q) ==
    LET req == [op |-> "get_transactions", args |-> q]
        raises == \/ (q.start_date # None /\ ~is_date(q.start_date))
                  \/ (q.end_date # None /\ ~is_date(q.end_date))
                  \/ (q.type # None /\ ~is_member_name(upper(q.type)))
        match(i) == /\ date_filter(transactions[i], q.start_date, q.end_date)
                    /\ (q.category # None => transactions[i].category = q.category)
                    /\ (q.type # None => transactions[i].type = member(upper(q.type)))
        ids == SelectSeq([i \in 1..Len(transactions) |-> i], match)
    IN  /\ UNCHANGED <<transactions, budget_goals, pc, local, goal_log>>
        /\ IF raises
           THEN /\ Reply(w, req, [op |-> "get_transactions", status |-> 500])
                /\ UNCHANGED session
           ELSE /\ Close(w)
                /\ Reply(w, req, [op |-> "get_transactions", status |-> 200,
                                  count |-> Len(ids),
                                  transactions |-> [k \in 1..Len(ids) |->
                                                       to_dict(transactions, ids[k])]])

---------------------------------------------------------------------------
\* POST /api/transactions

create_transaction(w, data) ==
    LET req == [op |-> "create_transaction", data |-> data]
    IN  /\ UNCHANGED <<budget_goals, pc, local, goal_log>>
        /\ IF ~(required_fields \subseteq DOMAIN data)
           THEN /\ Reply(w, req, [op |-> "create_transaction", status |-> 400])
                /\ UNCHANGED <<transactions, session>>
           ELSE IF ~is_date(data.date) \/ ~is_number(data.amount)
           THEN \* strptime or float raised before db.add
                /\ Reply(w, req, [op |-> "create_transaction", status |-> 500])
                /\ UNCHANGED <<transactions, session>>
           ELSE /\ CommitTransactions(w, <<new_transaction(data)>>)
                /\ Reply(w, req, [op |-> "create_transaction", status |-> 201,
                                  transaction |-> to_dict(transactions', Len(transactions'))])

---------------------------------------------------------------------------
\* GET /api/analysis

analysis_summary(df) ==
    LET total_income == sum_amount(by_type(df, INCOME))
        total_expenses == sum_amount(abs_amount(by_type(df, EXPENSE)))
        total_savings == total_income - total_expenses
    IN  [total_income |-> round2(total_income),
         total_expenses |-> round2(total_expenses),
         total_savings |-> round2(total_savings),
         savings_rate |-> savings_rate(total_savings, total_income)]

analysis_body(df) ==
    [op |-> "get_analysis", status |-> 200,
     summary |-> analysis_summary(df),
     category_spending |-> analyze_spending(df),
     date_range |-> [start |-> strftime(min_date(df)), end |-> strftime(max_date(df))]]

\* faulty variant of analysis_result: no empty check, a zero-filled summary instead
analysis_result_zero_filled(df) ==
    IF df = <<>>
    THEN [op |-> "get_analysis", status |-> 200,
          summary |-> analysis_summary(df),
          category_spending |-> analyze_spending(df),
          date_range |-> [start |-> None, end |-> None]]
    ELSE analysis_body(df)

\* what the handler returns once the query has produced df
analysis_result(df) ==
    IF df = <<>>
    THEN [op |-> "get_analysis", status |-> 404, error |-> "No transactions found"]
    ELSE analysis_body(df)

get_analysis(w, start_date, end_date) ==
    LET req == [op |-> "get_analysis", start_date |-> start_date, end_date |-> end_date]
    IN  /\ UNCHANGED <<transactions, budget_goals, pc, local, goal_log>>
        /\ Close(w)
        /\ Reply(w, req, analysis_result(
               get_transactions_as_dataframe(transactions, start_date, end_date)))

---------------------------------------------------------------------------
\* GET /api/monthly

monthly_result(df) ==
    IF df = <<>>
    THEN [op |-> "get_monthly_analysis", status |-> 404, error |-> "No transactions found"]
    ELSE [op |-> "get_monthly_analysis", status |-> 200,
          monthly_breakdown |-> analyze_monthly(df)]

get_monthly_analysis(w, start_date, end_date) ==
    LET req == [op |-> "get_monthly_analysis",
                start_date |-> start_date, end_date |-> end_date]
    IN  /\ UNCHANGED <<transactions, budget_goals, pc, local, goal_log>>
        /\ Close(w)
        /\ Reply(w, req, monthly_result(
               get_transactions_as_dataframe(transactions, start_date, end_date)))

---------------------------------------------------------------------------
\* GET /api/comparison

\* (change / baseline * 100) if baseline > 0 else 0, then round(.., 2)
change_pct(change, baseline) ==
    IF baseline > 0 THEN round_pct(change, baseline) ELSE 0

\* income and expenses of one period's frame
period_income(df) == IF df # <<>> THEN sum_amount(by_type(df, INCOME)) ELSE 0

\* faulty variant of period_expenses: the expenses are summed with their stored sign
period_expenses_no_abs(df) ==
    IF df # <<>> THEN sum_amount(by_type(df, EXPENSE)) ELSE 0

period_expenses(df) ==
    IF df # <<>> THEN sum_amount(abs_amount(by_type(df, EXPENSE))) ELSE 0

comparison_result(df1, df2) ==
    LET p1_income == period_income(df1)
        p1_expenses == period_expenses(df1)
        p2_income == period_income(df2)
        p2_expenses == period_expenses(df2)
        income_change == p2_income - p1_income
        expense_change == p2_expenses - p1_expenses
    IN  [op |-> "compare_periods", status |-> 200,
         period1 |-> [income |-> round2(p1_income),
                      expenses |-> round2(p1_expenses),
                      savings |-> round2(p1_income - p1_expenses)],
         period2 |-> [income |-> round2(p2_income),
                      expenses |-> round2(p2_expenses),
                      savings |-> round2(p2_income - p2_expenses)],
         changes |-> [income_change |-> round2(income_change),
                      income_change_pct |-> change_pct(income_change, p1_income),
                      expense_change |-> round2(expense_change),
                      expense_change_pct |-> change_pct(expense_change, p1_expenses)]]

compare_periods(w, q) ==
    LET req == [op |-> "compare_periods", args |-> q]
    IN  /\ UNCHANGED <<transactions, budget_goals, pc, local, goal_log>>
        /\ IF None \in {q.p1_start, q.p1_end, q.p2_start, q.p2_end}
           THEN /\ Reply(w, req, [op |-> "compare_periods", status |-> 400])
                /\ UNCHANGED session
           ELSE /\ Close(w)
                /\ Reply(w, req, comparison_result(
                       get_transactions_as_dataframe(transactions, q.p1_start, q.p1_end),
                       get_transactions_as_dataframe(transactions, q.p2_start, q.p2_end)))

---------------------------------------------------------------------------
\* GET /api/stats

\* db.query(func.sum(Transaction.amount)).filter(type == t).scalar() or 0
sql_sum(db, t) == sum_amount(by_type(db, t))

stats_result(db) ==
    LET total_income == sql_sum(db, INCOME)
        total_expenses == sql_sum(db, EXPENSE)
    IN  [op |-> "get_stats", status |-> 200,
         total_transactions |-> Len(db),
         total_income |-> round2(total_income),
         total_expenses |-> round2(abs(total_expenses)),
         net_savings |-> round2(total_income + total_expenses),
         unique_categories |-> Cardinality({db[i].category : i \in 1..Len(db)})]

get_stats(w) ==
    /\ UNCHANGED <<transactions, budget_goals, pc, local, goal_log>>
    /\ Close(w)
    /\ Reply(w, [op |-> "get_stats"], stats_result(transactions))

---------------------------------------------------------------------------
\* GET /api/budget-goals

get_budget_goals(w) ==
    /\ UNCHANGED <<transactions, budget_goals, pc, local, goal_log>>
    /\ Close(w)
    /\ Reply(w, [op |-> "get_budget_goals"],
             [op |-> "get_budget_goals", status |-> 200,
              count |-> Len(budget_goals), budget_goals |-> budget_goals])

---------------------------------------------------------------------------
\* POST /api/budget-goals

\* db.query(BudgetGoal).filter_by(category=c).first(): the id of the row, 0 for None
find_goal(goals, category) ==
    IF \E i \in 1..Len(goals) : goals[i].category = category
    THEN CHOOSE i \in 1..Len(goals) :
            /\ goals[i].category = category
            /\ \A j \in 1..(i - 1) : goals[j].category # category
    ELSE 0

\* the unit of work the if/else leaves in the session: an attribute change of
\* the loaded row, or a new BudgetGoal
staged_goal(goals, data) ==
    LET existing_goal == find_goal(goals, data.category)
    IN  IF existing_goal # 0
        THEN [kind |-> "update", id |-> existing_goal,
              loaded |-> goals[existing_goal].monthly_limit,
              category |-> data.category,
              monthly_limit |-> float(data.monthly_limit)]
        ELSE [kind |-> "insert", category |-> data.category,
              monthly_limit |-> float(data.monthly_limit)]

\* Column(category, unique=True): the INSERT of the flush raises IntegrityError
unique_violation(goals, staged) ==
    staged.kind = "insert" /\ find_goal(goals, staged.category) # 0

\* faulty variant of flush_goal: the UPDATE has no WHERE clause
flush_goal_update_all(goals, staged) ==
    IF staged.kind = "update"
    THEN [i \in 1..Len(goals) |-> [goals[i] EXCEPT !.monthly_limit = staged.monthly_limit]]
    ELSE Append(goals, [category |-> staged.category,
                        monthly_limit |-> staged.monthly_limit])

\* the flush of db.commit(): UPDATE of the attributes whose value differs from
\* the loaded one, or INSERT
flush_goal(goals, staged) ==
    IF staged.kind = "update"
    THEN IF staged.monthly_limit # staged.loaded
         THEN [goals EXCEPT ![staged.id].monthly_limit = staged.monthly_limit]
         ELSE goals
    ELSE Append(goals, [category |-> staged.category,
                        monthly_limit |-> staged.monthly_limit])

goal_message(staged) ==
    IF staged.kind = "update" THEN "Budget goal updated successfully"
    ELSE "Budget goal created successfully"

\* the second query and the 201 reply, over the table as committed
goal_created(w, data, staged, goals) ==
    Reply(w, [op |-> "set_budget_goal", data |-> data],
          [op |-> "set_budget_goal", status |-> 201,
           message |-> goal_message(staged),
           budget_goal |-> goals[find_goal(goals, data.category)]])

log_upsert(data) ==
    goal_log' = [c \in DOMAIN goal_log \cup {data.category} |->
                    IF c = data.category THEN float(data.monthly_limit) ELSE goal_log[c]]

\* the handler, run without interleaving
set_budget_goal(w, data) ==
    LET req == [op |-> "set_budget_goal", data |-> data]
    IN  /\ UNCHANGED <<pc, local>>
        /\ IF ~({"category", "monthly_limit"} \subseteq DOMAIN data)
           THEN /\ Reply(w, req, [op |-> "set_budget_goal", status |-> 400])
                /\ UNCHANGED <<transactions, budget_goals, session, goal_log>>
           ELSE IF ~is_number(data.monthly_limit)
           THEN \* float raised in either branch, before anything was staged
                /\ Reply(w, req, [op |-> "set_budget_goal", status |-> 500])
                /\ UNCHANGED <<transactions, budget_goals, session, goal_log>>
           ELSE LET staged == staged_goal(budget_goals, data)
                IN  IF unique_violation(budget_goals, staged)
                    THEN /\ Reply(w, req, [op |-> "set_budget_goal", status |-> 500])
                         /\ UNCHANGED <<transactions, budget_goals, session, goal_log>>
                    ELSE /\ budget_goals' = flush_goal(budget_goals, staged)
                         /\ CommitTransactions(w, <<>>)
                         /\ goal_created(w, data, staged, budget_goals')
                         /\ log_upsert(data)

\* The same handler in the steps at which it touches the database, for
\* requests served by several threads (each with its own scoped session):
\* the existence query and the if/else (lines 348-370), ...
sbg_begin(w, data) ==
    /\ pc[w] = "idle"
    /\ UNCHANGED <<transactions, budget_goals, session, goal_log>>
    /\ IF ~({"category", "monthly_limit"} \subseteq DOMAIN data)
       THEN /\ Reply(w, [op |-> "set_budget_goal", data |-> data],
                     [op |-> "set_budget_goal", status |-> 400])
            /\ pc' = [pc EXCEPT ![w] = "done"]
            /\ UNCHANGED local
       ELSE IF ~is_number(data.monthly_limit)
       THEN /\ Reply(w, [op |-> "set_budget_goal", data |-> data],
                     [op |-> "set_budget_goal", status |-> 500])
            /\ pc' = [pc EXCEPT ![w] = "done"]
            /\ UNCHANGED local
       ELSE /\ Reply(w, [op |-> "set_budget_goal", data |-> data], NoResponse)
            /\ local' = [local EXCEPT ![w] = staged_goal(budget_goals, data)]
            /\ pc' = [pc EXCEPT ![w] = "staged"]

\* ... db.commit() (line 372): the flush and the commit; the unique index makes
\* a second INSERT of a category fail, and the handler answers 500 ...
sbg_commit(w) ==
    /\ pc[w] = "staged"
    /\ IF unique_violation(budget_goals, local[w])
       THEN /\ response' = [response EXCEPT ![w] =
                                [op |-> "set_budget_goal", status |-> 500]]
            /\ pc' = [pc EXCEPT ![w] = "done"]
            /\ UNCHANGED <<transactions, budget_goals, session, goal_log>>
       ELSE /\ budget_goals' = flush_goal(budget_goals, local[w])
            /\ transactions' = transactions \o session[w]
            /\ session' = [session EXCEPT ![w] = <<>>]
            /\ log_upsert(request[w].data)
            /\ pc' = [pc EXCEPT ![w] = "committed"]
            /\ UNCHANGED response
    /\ UNCHANGED <<request, local>>

\* ... and the second query, to_dict, db.close() and the reply (lines 374-381).
sbg_finish(w) ==
    /\ pc[w] = "committed"
    /\ goal_created(w, request[w].data, local[w], budget_goals)
    /\ Close(w)
    /\ pc' = [pc EXCEPT ![w] = "done"]
    /\ UNCHANGED <<transactions, budget_goals, local, goal_log>>

---------------------------------------------------------------------------
\* The service with one worker thread serving whole requests in turn.

Next ==
    \E w \in {MainWorker} :
        \/ home(w)
        \/ \E file \in UploadInputs : upload_csv(w, file)
        \/ \E q \in TransactionQueries : get_transactions(w, q)
        \/ \E data \in CreateInputs : create_transaction(w, data)
        \/ get_analysis(w, None, None)
        \/ get_monthly_analysis(w, None, None)
        \/ get_budget_goals(w)
        \/ \E data \in GoalInputs : set_budget_goal(w, data)
        \/ compare_periods(w, [p1_start |-> "2023-12-01", p1_end |-> "2024-01-01",
                               p2_start |-> "2024-01-01", p2_end |-> "2024-04-01"])
        \/ get_stats(w)

Spec == Init /\ [][Next]_vars

---------------------------------------------------------------------------
\* The aggregation engine over every table of up to MaxTx rows.

InitEngine ==
    /\ transactions \in SeqsUpTo(Rows, MaxTx)
    /\ budget_goals = <<>>
    /\ session = [w \in Workers |-> <<>>]
    /\ request = [w \in Workers |-> NoRequest]
    /\ response = [w \in Workers |-> NoResponse]
    /\ pc = [w \in Workers |-> "idle"]
    /\ local = [w \in Workers |-> NoRequest]
    /\ goal_log = <<>>

\* One request per table: a request changes neither table, so the requests
\* that could follow it meet the states the first one already met.
Fresh(w) == request[w] = NoRequest

engine_get_analysis(w) ==
    Fresh(w) /\ \E start_date, end_date \in DateParams : get_analysis(w, start_date, end_date)

engine_get_monthly_analysis(w) ==
    Fresh(w) /\ \E start_date, end_date \in DateParams :
                    get_monthly_analysis(w, start_date, end_date)

engine_compare_periods(w) ==
    Fresh(w) /\ \E q \in ComparisonInputs : compare_periods(w, q)

engine_get_stats(w) ==
    Fresh(w) /\ get_stats(w)

NextEngine ==
    \/ engine_get_analysis(MainWorker)
    \/ engine_get_monthly_analysis(MainWorker)
    \/ engine_compare_periods(MainWorker)
    \/ engine_get_stats(MainWorker)

SpecEngine == InitEngine /\ [][NextEngine]_vars

---------------------------------------------------------------------------
\* Two threads, each serving one POST /api/budget-goals, over every goal table.

GoalLimits == {50000, 100000}

GoalTables ==
    {t \in SeqsUpTo([category : Categories, monthly_limit : GoalLimits],
                    Cardinality(Categories)) :
        \A i, j \in 1..Len(t) : t[i].category = t[j].category => i = j}

InitConc ==
    /\ transactions = <<>>
    /\ budget_goals \in GoalTables
    /\ session = [w \in Workers |-> <<>>]
    /\ request = [w \in Workers |-> NoRequest]
    /\ response = [w \in Workers |-> NoResponse]
    /\ pc = [w \in Workers |-> "idle"]
    /\ local = [w \in Workers |-> NoRequest]
    /\ goal_log = [c \in {budget_goals[i].category : i \in 1..Len(budget_goals)} |->
                      budget_goals[find_goal(budget_goals, c)].monthly_limit]

NextConc ==
    \E w \in Workers :
        \/ \E data \in GoalInputs : sbg_begin(w, data)
        \/ sbg_commit(w)
        \/ sbg_finish(w)

SpecConc == InitConc /\ [][NextConc]_vars

---------------------------------------------------------------------------
\* Properties.  The expected values are written over the committed table and
\* index sets, independently of the frames and folds of the handlers.

\* the response of the serving worker of Spec and SpecEngine, and its request
Resp == response[MainWorker]

Req == request[MainWorker]

\* ids of the stored records dated within [start, end], each bound optional
InRange(start, end) ==
    {i \in 1..Len(transactions) :
        /\ (start # None => DateTable[start] <= transactions[i].date)
        /\ (end # None => transactions[i].date <= DateTable[end])}

OfType(I, t) == {i \in I : transactions[i].type = t}

AbsAmount(i) == IF transactions[i].amount < 0 THEN 0 - transactions[i].amount
                ELSE transactions[i].amount

\* sum of the stored amounts of the records I
RECURSIVE SumStored(_)
SumStored(I) ==
    IF I = {} THEN 0
    ELSE LET i == CHOOSE x \in I : TRUE
         IN  transactions[i].amount + SumStored(I \ {i})

\* sum of the absolute amounts of the records I
RECURSIVE SumAbs(_)
SumAbs(I) ==
    IF I = {} THEN 0
    ELSE LET i == CHOOSE x \in I : TRUE
         IN  AbsAmount(i) + SumAbs(I \ {i})

ExpectedIncome(I) == SumStored(OfType(I, "income"))

ExpectedExpenses(I) == SumAbs(OfType(I, "expense"))

\* the frame a handler builds for the records I
FrameOf(start, end) == get_transactions_as_dataframe(transactions, start, end)

\* the date bounds of the request just served, if it had any
ServedBounds ==
    IF Req.op \in {"get_analysis", "get_monthly_analysis"}
    THEN {Req.start_date, Req.end_date} ELSE {}

\* C1: for every collection of records (every date-filtered selection of every
\* table, the empty one included), analyze_spending returns a mapping whose
\* keys are exactly the categories with at least one expense record and whose
\* values are the sums of abs(amount) over the category's expense records;
\* income records contribute nothing; no expense records, empty mapping.
C1_CategorySpending ==
    \A start, end \in (IF Req = NoRequest THEN DateParams ELSE {}) \cup ServedBounds :
        LET I == InRange(start, end)
            spending == analyze_spending(FrameOf(start, end))
            expense_ids(c) == {i \in OfType(I, "expense") : transactions[i].category = c}
        IN  /\ DOMAIN spending = {c \in Categories : expense_ids(c) # {}}
            /\ \A c \in DOMAIN spending : spending[c] = SumAbs(expense_ids(c))
            /\ (OfType(I, "expense") = {} => spending = <<>>)
            /\ (Resp.op = "get_analysis" /\ Resp.status = 200
                /\ Req.start_date = start /\ Req.end_date = end
                    => Resp.category_spending = spending)

\* C1 witness: /api/analysis answered with one category whose total is the
\* absolute value of a negative expense, an income record of the same
\* category having added nothing.
C1_Witness ==
    /\ Resp.op = "get_analysis" /\ Resp.status = 200
    /\ Len(transactions) = 2
    /\ \E i, j \in 1..2 :
          /\ transactions[i].type = "expense" /\ transactions[i].amount < 0
          /\ transactions[j].type = "income" /\ transactions[j].amount > 0
          /\ transactions[j].category = transactions[i].category
          /\ Resp.category_spending =
                [c \in {transactions[i].category} |-> 0 - transactions[i].amount]

\* calendar arithmetic on yyyymm months
NextMonth(m) == IF m % 100 = 12 THEN (m \div 100 + 1) * 100 + 1 ELSE m + 1

MonthCount(first, last) ==
    ((last \div 100) - (first \div 100)) * 12 + (last % 100) - (first % 100) + 1

MonthOf(i) == transactions[i].date \div 100

\* C2: for every non-empty collection analyze_monthly returns exactly one entry
\* per calendar month from the month of the earliest record to the month of
\* the latest, inclusive, in strictly ascending order, the months without
\* records being present with income 0 and expenses 0; for the empty
\* collection it returns the empty sequence.
C2_MonthlyGapFilling ==
    \A start, end \in (IF Req = NoRequest THEN DateParams ELSE {}) \cup ServedBounds :
        LET I == InRange(start, end)
            result == analyze_monthly(FrameOf(start, end))
            first == CHOOSE m \in {MonthOf(i) : i \in I} : \A i \in I : m <= MonthOf(i)
            last == CHOOSE m \in {MonthOf(i) : i \in I} : \A i \in I : m >= MonthOf(i)
        IN  IF I = {} THEN result = <<>>
            ELSE /\ Len(result) = MonthCount(first, last)
                 /\ result[1].month = first
                 /\ result[Len(result)].month = last
                 /\ \A k \in 1..(Len(result) - 1) :
                       /\ result[k + 1].month = NextMonth(result[k].month)
                       /\ result[k].month < result[k + 1].month
                 /\ \A k \in 1..Len(result) :
                       (\A i \in I : MonthOf(i) # result[k].month)
                           => result[k].income = 0 /\ result[k].expenses = 0
                 /\ (Resp.op = "get_monthly_analysis"
                     /\ Req.start_date = start /\ Req.end_date = end
                         => Resp.status = 200 /\ Resp.monthly_breakdown = result)

\* C2 witness: /api/monthly answered for records of December 2023 and March
\* 2024 only with the four months December to March, January and February
\* being all zero.
C2_Witness ==
    /\ Resp.op = "get_monthly_analysis" /\ Resp.status = 200
    /\ {MonthOf(i) : i \in 1..Len(transactions)} = {202312, 202403}
    /\ Req.start_date = None /\ Req.end_date = None
    /\ Len(Resp.monthly_breakdown) = 4
    /\ Resp.monthly_breakdown[2].month = 202401
    /\ Resp.monthly_breakdown[3].month = 202402
    /\ Resp.monthly_breakdown[3].income = 0
    /\ Resp.monthly_breakdown[3].expenses = 0

\* C3: when the (optionally date-filtered) collection is empty, get_analysis
\* answers 404 'No transactions found', with no summary and not 500; when it
\* is not empty, it never answers 404.
C3_NoDataIsDistinct ==
    Resp.op = "get_analysis" =>
        LET I == InRange(Req.start_date, Req.end_date)
        IN  /\ I = {} => /\ Resp.status = 404
                         /\ Resp.error = "No transactions found"
                         /\ "summary" \notin DOMAIN Resp
            /\ I # {} => Resp.status = 200

\* C3 witness: the table holds records, the date filter selects none of them,
\* and the answer is 404.
C3_Witness ==
    /\ Resp.op = "get_analysis" /\ Resp.status = 404
    /\ Len(transactions) > 0
    /\ Req.start_date = "2024-04-01"

\* the records of the two periods of a comparison request
Period1 == InRange(Req.args.p1_start, Req.args.p1_end)

Period2 == InRange(Req.args.p2_start, Req.args.p2_end)

ComparisonServed == Resp.op = "compare_periods" /\ None \notin
    {Req.args.p1_start, Req.args.p1_end, Req.args.p2_start, Req.args.p2_end}

\* C4, as stated: for any two date ranges compare_periods answers 200 with,
\* for each period, income = the sum of the stored amounts of its income
\* records and expenses = the sum of abs(amount) of its expense records (0 and
\* 0 for a period without records), income_change = income2 - income1 and
\* expense_change = expenses2 - expenses1.
C4_ComparisonExact ==
    ComparisonServed =>
        /\ Resp.status = 200
        /\ Resp.period1.income = ExpectedIncome(Period1)
        /\ Resp.period1.expenses = ExpectedExpenses(Period1)
        /\ Resp.period2.income = ExpectedIncome(Period2)
        /\ Resp.period2.expenses = ExpectedExpenses(Period2)
        /\ (Period1 = {} => Resp.period1.income = 0 /\ Resp.period1.expenses = 0)
        /\ (Period2 = {} => Resp.period2.income = 0 /\ Resp.period2.expenses = 0)
        /\ Resp.changes.income_change = Resp.period2.income - Resp.period1.income
        /\ Resp.changes.expense_change = Resp.period2.expenses - Resp.period1.expenses

\* the nearest cent of an amount: half a cent added, then cut down to a cent
NearestCent(x) == UnitsPerCent * ((2 * x + UnitsPerCent) \div (2 * UnitsPerCent))

\* C4, amended: for any two date ranges compare_periods answers 200, and every
\* figure it reports is the 2-decimal rounding of the quantity of the claim:
\* income of round(sum of the stored income amounts), expenses of round(sum
\* of abs(amount) of the expense records), 0 and 0 for a period without
\* records, income_change of round(income2 - income1) and expense_change of
\* round(expenses2 - expenses1), the differences taken before rounding.
C4_ComparisonRounded ==
    ComparisonServed =>
        /\ Resp.status = 200
        /\ Resp.period1.income = NearestCent(ExpectedIncome(Period1))
        /\ Resp.period1.expenses = NearestCent(ExpectedExpenses(Period1))
        /\ Resp.period2.income = NearestCent(ExpectedIncome(Period2))
        /\ Resp.period2.expenses = NearestCent(ExpectedExpenses(Period2))
        /\ (Period1 = {} => Resp.period1.income = 0 /\ Resp.period1.expenses = 0)
        /\ (Period2 = {} => Resp.period2.income = 0 /\ Resp.period2.expenses = 0)
        /\ Resp.changes.income_change =
              NearestCent(ExpectedIncome(Period2) - ExpectedIncome(Period1))
        /\ Resp.changes.expense_change =
              NearestCent(ExpectedExpenses(Period2) - ExpectedExpenses(Period1))

\* C4 witness: a comparison of a period that ends before it starts (no
\* records, 0 and 0) with a period holding an income and a negative expense
\* record.
C4_Witness ==
    /\ ComparisonServed /\ Resp.status = 200
    /\ Req.args.p1_start = "2024-04-01" /\ Req.args.p1_end = "2023-12-01"
    /\ Resp.period1.income = 0 /\ Resp.period1.expenses = 0
    /\ \E i, j \in Period2 :
          /\ transactions[i].type = "income" /\ transactions[i].amount > 0
          /\ transactions[j].type = "expense" /\ transactions[j].amount < 0
    /\ Resp.changes.income_change = Resp.period2.income
    /\ Resp.changes.expense_change = Resp.period2.expenses
    /\ Resp.period2.expenses > 0

\* C5: a rate or percentage whose baseline is 0 is exactly 0, with no error:
\* savings_rate of a monthly entry whose month has income 0, savings_rate of
\* the analysis summary when the income is 0, income_change_pct when the
\* income of period 1 is 0, expense_change_pct when its expenses are 0.
C5_ZeroBaseline ==
    /\ Resp.op = "get_monthly_analysis" /\ Resp.status = 200 =>
          \A k \in 1..Len(Resp.monthly_breakdown) :
              LET I == {i \in InRange(Req.start_date, Req.end_date) :
                           MonthOf(i) = Resp.monthly_breakdown[k].month}
              IN  ExpectedIncome(I) = 0 => Resp.monthly_breakdown[k].savings_rate = 0
    /\ Resp.op = "get_analysis" /\ InRange(Req.start_date, Req.end_date) # {} =>
          /\ Resp.status = 200
          /\ (ExpectedIncome(InRange(Req.start_date, Req.end_date)) = 0
                 => Resp.summary.savings_rate = 0)
    /\ ComparisonServed =>
          /\ Resp.status = 200
          /\ (ExpectedIncome(Period1) = 0 => Resp.changes.income_change_pct = 0)
          /\ (ExpectedExpenses(Period1) = 0 => Resp.changes.expense_change_pct = 0)

\* C5 witness: period 1 has no income, period 2 has income 50.006; the answer
\* has income_change_pct 0 and income_change 50.01.
C5_Witness ==
    /\ ComparisonServed /\ Resp.status = 200
    /\ ExpectedIncome(Period1) = 0 /\ ExpectedExpenses(Period1) > 0
    /\ ExpectedIncome(Period2) = 25003
    /\ Resp.changes.income_change_pct = 0
    /\ Resp.changes.income_change = 25005
    /\ Resp.changes.expense_change_pct # 0

\* C6: in every monthly entry and in every summary, the reported savings
\* equals the reported income minus the reported expenses exactly, also for
\* amounts with more than two decimal places.
C6_SavingsIdentity ==
    /\ Resp.op = "get_monthly_analysis" /\ Resp.status = 200 =>
          \A k \in 1..Len(Resp.monthly_breakdown) :
              Resp.monthly_breakdown[k].savings =
                  Resp.monthly_breakdown[k].income - Resp.monthly_breakdown[k].expenses
    /\ Resp.op = "get_analysis" /\ Resp.status = 200 =>
          Resp.summary.total_savings =
              Resp.summary.total_income - Resp.summary.total_expenses

\* C7: get_stats reports total_expenses = the sum of abs(amount) over all
\* expense records and net_savings = total_income minus that total_expenses,
\* whatever the signs of the stored expense amounts (each figure rounded to 2
\* decimals).
C7_StatsSignNormalised ==
    Resp.op = "get_stats" =>
        LET All == 1..Len(transactions)
        IN  /\ Resp.status = 200
            /\ Resp.total_expenses = NearestCent(ExpectedExpenses(All))
            /\ Resp.net_savings = NearestCent(ExpectedIncome(All) - ExpectedExpenses(All))

\* ids of the goals of one category
GoalsOf(c) == {i \in 1..Len(budget_goals) : budget_goals[i].category = c}

\* a body of POST /api/budget-goals that names a category and a numeric limit
ValidGoal(data) ==
    /\ {"category", "monthly_limit"} \subseteq DOMAIN data
    /\ data.monthly_limit \in DOMAIN NumberTable

\* C8: after any sequence of upserts served one after another, the goal store
\* holds exactly one goal for each category ever upserted and none for any
\* other; its monthly_limit is the value of the latest upsert of the category
\* (so an upsert leaves every other category's goal as it was, and no goal is
\* ever removed); and every upsert succeeds and returns that row.
C8_OneGoalPerCategory ==
    /\ \A c \in Categories :
          IF c \in DOMAIN goal_log
          THEN /\ Cardinality(GoalsOf(c)) = 1
               /\ \A i \in GoalsOf(c) : budget_goals[i].monthly_limit = goal_log[c]
          ELSE GoalsOf(c) = {}
    /\ Resp.op = "set_budget_goal" /\ ValidGoal(Req.data) =>
          /\ Resp.status = 201
          /\ Resp.budget_goal = [category |-> Req.data.category,
                                 monthly_limit |-> NumberTable[Req.data.monthly_limit]]
          /\ goal_log[Req.data.category] = NumberTable[Req.data.monthly_limit]

\* C8 witness: two categories have goals and the goal of Food, created first
\* with limit 100, has just been updated to 200 while Salary kept 100.
C8_Witness ==
    /\ Resp.op = "set_budget_goal" /\ Resp.status = 201
    /\ Resp.message = "Budget goal updated successfully"
    /\ budget_goals = <<[category |-> "Food", monthly_limit |-> 100000],
                        [category |-> "Salary", monthly_limit |-> 50000]>>
    /\ Req.data = [category |-> "Food", monthly_limit |-> "200"]

\* C9: when two set_budget_goal requests for the same category run
\* concurrently, both complete without an error response, the store ends
\* with exactly one goal of that category, and its monthly_limit is the value
\* of one of the two requests.
C9_ConcurrentUpsertsConverge ==
    \A v, w \in Workers :
        (/\ v # w
         /\ pc[v] = "done" /\ pc[w] = "done"
         /\ ValidGoal(request[v].data) /\ ValidGoal(request[w].data)
         /\ request[v].data.category = request[w].data.category)
        => /\ response[v].status = 201
           /\ response[w].status = 201
           /\ Cardinality(GoalsOf(request[v].data.category)) = 1
           /\ \A i \in GoalsOf(request[v].data.category) :
                 budget_goals[i].monthly_limit \in
                     {NumberTable[request[v].data.monthly_limit],
                      NumberTable[request[w].data.monthly_limit]}

\* the type strings that name a member of the enumeration, ignoring case
NamesType(t) == t \in {"income", "Income", "INCOME", "expense", "Expense", "EXPENSE"}

Lowered(t) == IF t \in {"income", "Income", "INCOME"} THEN "income"
              ELSE IF t \in {"expense", "Expense", "EXPENSE"} THEN "expense"
              ELSE t

\* C10: create_transaction and upload_csv store an input type that equals
\* 'income' or 'expense' ignoring case as that member of the enumeration, and
\* reject every other type value, so that no record is stored for it.
C10_TypeValidated ==
    /\ Resp.op = "create_transaction" /\ Resp.status = 201 =>
          /\ NamesType(Req.data.type)
          /\ Resp.transaction.type = Lowered(Req.data.type)
    /\ Resp.op = "upload_csv" /\ Resp.status = 201 =>
          \A k \in 1..Len(Req.file.rows) :
              LET stored == transactions[Len(transactions) - Len(Req.file.rows) + k]
              IN  /\ NamesType(Req.file.rows[k].type)
                  /\ stored.type = Lowered(Req.file.rows[k].type)

\* the number of transaction records a request is entitled to persist: one
\* for a create_transaction answered 201, the file's rows for an upload_csv
\* answered 201, none for anything else (an upload answered with an error
\* included)
OwnRows(req, resp) ==
    IF resp.status # 201 THEN 0
    ELSE IF req.op = "create_transaction" THEN 1
    ELSE IF req.op = "upload_csv" THEN Len(req.file.rows)
    ELSE 0

\* C11: a bulk import is all-or-nothing across requests: the rows of an
\* upload that failed with an error response are never persisted, neither by
\* that request nor by the commit of a later request served through the same
\* scoped session.  Every step therefore keeps the stored records and appends
\* exactly the rows of the request it serves; nothing left pending by an
\* earlier failed upload is appended with them.
C11_UploadAllOrNothing ==
    [][/\ Len(transactions') =
              Len(transactions) + OwnRows(request'[MainWorker], response'[MainWorker])
       /\ SubSeq(transactions', 1, Len(transactions)) = transactions]_vars

=============================================================================
